---- MODULE Spec2Model ----
(***************************************************************************)
(* A model of the URScript code parser (codeParser) and of the signature   *)
(* help provider built on it.  Text is a sequence of one-character         *)
(* strings; every index is zero-based as in the JavaScript source.         *)
(*                                                                         *)
(* A value that several places of one definition use is passed as an       *)
(* operator parameter (LET Use(x) == ... IN Use(e)) and not named by a     *)
(* zero-argument LET, so that each subexpression occurs once.              *)
(***************************************************************************)
EXTENDS Integers, Sequences, FiniteSets, TLC

(***************************************************************************)
(* Characters and JavaScript string primitives                             *)
(***************************************************************************)
Letters ==
    {"a","b","c","d","e","f","g","h","i","j","k","l","m",
     "n","o","p","q","r","s","t","u","v","w","x","y","z"}

Digits == {"0","1","2","3","4","5","6","7","8","9"}

\* \w of a JavaScript regular expression
WordChars == Letters \cup Digits \cup {"_"}

\* \s of a JavaScript regular expression (the members the inputs use)
Whitespace == {" ", "\t", "\n"}

\* the characters "." does not match
LineTerminators == {"\n"}

Min(S) == CHOOSE x \in S : \A y \in S : x <= y

Max(S) == CHOOSE x \in S : \A y \in S : y <= x

\* the least member of S, d when S is empty
MinOr(S, d) == IF S = {} THEN d ELSE Min(S)

\* the greatest member of S, d when S is empty
MaxOr(S, d) == IF S = {} THEN d ELSE Max(S)

\* s.substring(a, b)
Sub(s, a, b) == SubSeq(s, a + 1, b)

\* s.startsWith(lit, p)
StartsAt(s, p, lit) ==
    /\ p >= 0
    /\ p + Len(lit) <= Len(s)
    /\ SubSeq(s, p + 1, p + Len(lit)) = lit

\* s.endsWith(lit)
EndsWith(s, lit) == Len(lit) <= Len(s) /\ StartsAt(s, Len(s) - Len(lit), lit)

\* s.indexOf(lit, from), -1 when absent
IndexOf(s, lit, from) ==
    MinOr({p \in (IF from < 0 THEN 0 ELSE from)..Len(s) : StartsAt(s, p, lit)}, -1)

\* the first index >= p whose character is outside S (Len(s) when none)
SkipWhile(s, p, S) ==
    Min({q \in p..Len(s) : q = Len(s) \/ s[q + 1] \notin S})

\* the last index <= p (p <= Len(s)) whose preceding character is outside S
SkipBack(s, p, S) ==
    Max({q \in 0..p : q = 0 \/ s[q] \notin S})

\* s.trim()
Trim(s) ==
    LET Cut(a, b) == IF a >= b THEN <<>> ELSE Sub(s, a, b)
    IN  Cut(SkipWhile(s, 0, Whitespace), SkipBack(s, Len(s), Whitespace))

\* s.split(sep) for a one-character separator
RECURSIVE Split(_, _)
Split(s, sep) ==
    LET At(p) == IF p = -1 THEN <<s>>
                 ELSE <<Sub(s, 0, p)>> \o Split(Sub(s, p + 1, Len(s)), sep)
    IN  At(IndexOf(s, <<sep>>, 0))

\* s.replace(lit, '') : the first occurrence only
RemoveFirst(s, lit) ==
    LET At(p) == IF p = -1 THEN s
                 ELSE Sub(s, 0, p) \o Sub(s, p + Len(lit), Len(s))
    IN  At(IndexOf(s, lit, 0))

\* s.replace(/c/g, '')
RECURSIVE RemoveAll(_, _)
RemoveAll(s, c) ==
    IF s = <<>> THEN <<>>
    ELSE (IF Head(s) = c THEN <<>> ELSE <<Head(s)>>) \o RemoveAll(Tail(s), c)

\* parts.join(sep)
RECURSIVE Join(_, _)
Join(parts, sep) ==
    IF parts = <<>> THEN <<>>
    ELSE IF Len(parts) = 1 THEN parts[1]
    ELSE parts[1] \o sep \o Join(Tail(parts), sep)

\* /lit/.test(s)
Contains(s, lit) == \E p \in 0..Len(s) : StartsAt(s, p, lit)

\* \b at index p of s
WordBoundary(s, p) ==
    (p > 0 /\ s[p] \in WordChars) # (p < Len(s) /\ s[p + 1] \in WordChars)

(***************************************************************************)
(* The regular expressions of the parser                                   *)
(***************************************************************************)
KwDef == <<"d","e","f">>

KwThread == <<"t","h","r","e","a","d">>

KwGlobal == <<"g","l","o","b","a","l">>

\* the alternation (def|thread|global)
DeclKeywords == {KwDef, KwThread, KwGlobal}

NoMatch == [found |-> FALSE, lastIndex |-> 0]

\* One attempt of \b(kws)\s+keyword.*(\(.*\):)* at index p, -1 when it fails,
\* else the index the match ends at: \s+ takes every whitespace character, the
\* greedy .* runs to the end of the line, and the trailing group then matches
\* zero times.
MthdMatchEnd(s, p, kws, keyword) ==
    LET AfterSpace(q, r) ==
            IF r > q /\ StartsAt(s, r, keyword)
            THEN SkipWhile(s, r + Len(keyword),
                           {s[i] : i \in 1..Len(s)} \ LineTerminators)
            ELSE -1
        AfterKw(q) == AfterSpace(q, SkipWhile(s, q, Whitespace))
    IN  IF WordBoundary(s, p) /\ \E kw \in kws : StartsAt(s, p, kw)
        THEN AfterKw(p + Len(CHOOSE kw \in kws : StartsAt(s, p, kw)))
        ELSE -1

\* mthdPat.exec(s) of a RegExp built with the "g" flag: the search starts at
\* lastIndex, a match moves lastIndex to its end, a failure resets it to 0.
\* text is match[0] and kw is match[1].
MthdExec(s, lastIndex, kws, keyword) ==
    LET Result(p, e) ==
            [found |-> TRUE, index |-> p, text |-> Sub(s, p, e),
             kw |-> CHOOSE kw \in kws : StartsAt(s, p, kw), lastIndex |-> e]
        At(p) == IF p = -1 THEN NoMatch
                 ELSE Result(p, MthdMatchEnd(s, p, kws, keyword))
    IN  At(MinOr({p \in lastIndex..Len(s) :
                    MthdMatchEnd(s, p, kws, keyword) # -1}, -1))

\* One attempt of \b(?!def|thread|global)\w+ at index p
NameMatchAt(s, p) ==
    /\ WordBoundary(s, p)
    /\ ~(\E kw \in DeclKeywords : StartsAt(s, p, kw))
    /\ p < Len(s)
    /\ s[p + 1] \in WordChars

\* namePat.exec(s) searching from index from (0 for the pattern without flag)
NameExec(s, from) ==
    LET Result(p, e) ==
            [found |-> TRUE, index |-> p, text |-> Sub(s, p, e), lastIndex |-> e]
        At(p) == IF p = -1 THEN NoMatch ELSE Result(p, SkipWhile(s, p, WordChars))
    IN  At(MinOr({p \in from..Len(s) : NameMatchAt(s, p)}, -1))

\* the index of the first ")" after the "(" at index p with no line terminator
\* between them, -1 when there is none
CloseOf(s, p) ==
    MinOr({q \in (p + 1)..(Len(s) - 1) :
             /\ s[q + 1] = ")"
             /\ \A i \in (p + 1)..(q - 1) : s[i + 1] \notin LineTerminators}, -1)

\* paramPat.exec(s), the pattern \((.*?)\): the first "(" that a ")" follows on
\* the same line, and the lazy group between them
ParamExec(s) ==
    LET At(p) == IF p = -1 THEN [found |-> FALSE, group |-> <<>>]
                 ELSE [found |-> TRUE, group |-> Sub(s, p + 1, CloseOf(s, p))]
    IN  At(MinOr({p \in 0..(Len(s) - 1) : s[p + 1] = "(" /\ CloseOf(s, p) # -1}, -1))

(***************************************************************************)
(* Collaborators imported from ./scriptmethod and ./utilities              *)
(***************************************************************************)
TNumber == <<"n","u","m","b","e","r">>

TBool == <<"b","o","o","l">>

TNone == <<"N","o","n","e">>

\* an absent value (undefined)
Undefined == [defined |-> FALSE]

Some(v) == [defined |-> TRUE, value |-> v]

\* the type-normalisation table: a recognised token keeps its type, any other
\* token (or none) maps to the untyped sentinel
str2Type(tok) ==
    IF tok.defined /\ tok.value \in {TNumber, TBool} THEN tok.value ELSE TNone

type2Str(type) == type

\* isBlank(str)
isBlank(str) == \A i \in 1..Len(str) : str[i] \in Whitespace

\* new ScriptMethod(info): the descriptor with its signature label and its
\* documentation derived from the fields of info
ScriptMethod(info) ==
    [Name          |-> info.Name,
     Parameters    |-> [i \in DOMAIN info.Parameters |->
                          [Label         |-> info.Parameters[i].Label,
                           Documentation |-> info.Parameters[i].Comment]],
     Label         |-> [name   |-> info.Name,
                        labels |-> [i \in DOMAIN info.Parameters |->
                                      info.Parameters[i].Label],
                        types  |-> [i \in DOMAIN info.Parameters |->
                                      info.Parameters[i].Type],
                        return |-> info.ReturnType],
     Documentation |-> [summary |-> info.Comment, return |-> info.Return]]

(***************************************************************************)
(* The doc-comment parser                                                  *)
(***************************************************************************)
Sentinel == <<"#","#","#">>

AtParam == <<"@","p","a","r","a","m">>

AtReturns == <<"@","r","e","t","u","r","n","s">>

\* the optional oldLines argument
NoWindow == [present |-> FALSE, lines |-> <<>>]

Window(ls) == [present |-> TRUE, lines |-> ls]

NoDoc == [found |-> FALSE]

\* splitted.shift(): the element taken
Shift(parts) == IF parts = <<>> THEN Undefined ELSE Some(Head(parts))

\* splitted.shift(): what is left
Rest(parts) == IF parts = <<>> THEN <<>> ELSE Tail(parts)

parseDocParam(line) ==
    LET Label(first) == IF first.defined THEN first.value ELSE <<>>
        Of(splitted) ==
            [Label   |-> Label(Shift(splitted)),
             Type    |-> type2Str(str2Type(Shift(Rest(splitted)))),
             Comment |-> Join(Rest(Rest(splitted)), <<" ">>),
             Default |-> <<>>]
    IN  Of(Split(Trim(RemoveFirst(line, AtParam)), " "))

\* line is the first body line that starts with @returns, when there is one; an
\* empty line is falsy and gives no return
parseDocReturn(line) ==
    LET Of(splitted) ==
            Some([ReturnType |-> type2Str(str2Type(Shift(splitted))),
                  Return     |-> Join(Rest(splitted), <<" ">>)])
    IN  IF line.defined /\ line.value # <<>>
        THEN Of(Split(Trim(RemoveFirst(line.value, AtReturns)), " "))
        ELSE Undefined

\* doc.filter(l => l.startsWith(lit) = want)
RECURSIVE FilterStarts(_, _, _)
FilterStarts(doc, lit, want) ==
    IF doc = <<>> THEN <<>>
    ELSE (IF StartsAt(Head(doc), 0, lit) = want THEN <<Head(doc)>> ELSE <<>>)
         \o FilterStarts(Tail(doc), lit, want)

\* doc.find(l => l.startsWith(lit))
FindStarts(doc, lit) ==
    LET At(i) == IF i = 0 THEN Undefined ELSE Some(doc[i])
    IN  At(MinOr({i \in DOMAIN doc : StartsAt(doc[i], 0, lit)}, 0))

\* the earliest sentinel before the closing one, instead of the nearest
FindDocStartEarliest(lines) ==
    MinOr({i \in 1..(Len(lines) - 1) : lines[i] = Sentinel}, 0)

\* the index (one-based) of the opening sentinel the backward loop of findDoc
\* stops at, 0 when the loop runs out
FindDocStart(lines) ==
    MaxOr({i \in 1..(Len(lines) - 1) : lines[i] = Sentinel}, 0)

\* the anonymous object findDoc builds from the stripped body lines
DocInfo(name, doc) ==
    LET Params(pls) == [i \in DOMAIN pls |-> parseDocParam(pls[i])]
        Info(returns) ==
            [Name       |-> name,
             ReturnType |-> IF returns.defined THEN returns.value.ReturnType
                            ELSE TNone,
             Return     |-> IF returns.defined THEN returns.value.Return ELSE <<>>,
             Deprecated |-> <<>>,
             Comment    |-> Join(FilterStarts(doc, <<"@">>, FALSE), <<" "," ","\n">>),
             Parameters |-> Params(FilterStarts(doc, AtParam, TRUE))]
    IN  Info(parseDocReturn(FindStarts(doc, AtReturns)))

\* body is lines.slice(startIndex + 1, endIndex), kept beside the descriptor
findDoc(name, oldLines) ==
    LET Build(body) ==
            [found  |-> TRUE,
             body   |-> body,
             method |-> ScriptMethod(DocInfo(name,
                            [i \in DOMAIN body |-> Trim(RemoveAll(body[i], "#"))]))]
        From(start) ==
            IF start > 0 /\ start < Len(oldLines.lines)
            THEN Build(SubSeq(oldLines.lines, start + 1, Len(oldLines.lines) - 1))
            ELSE NoDoc
    IN  IF /\ oldLines.present
           /\ Len(oldLines.lines) > 0
           /\ oldLines.lines[Len(oldLines.lines)] = Sentinel
        THEN From(FindDocStart(oldLines.lines))
        ELSE NoDoc

(***************************************************************************)
(* The symbol descriptor builders                                          *)
(***************************************************************************)
\* the decimal digits of a positive index
RECURSIVE Numeral(_)
Numeral(n) ==
    IF n < 10 THEN <<<<"0","1","2","3","4","5","6","7","8","9">>[n + 1]>>
    ELSE Numeral(n \div 10) \o Numeral(n % 10)

\* param.map(p => `${${signIdx++}:${p}}`)
Placeholders(param) ==
    [i \in DOMAIN param |-> <<"$","{">> \o Numeral(i) \o <<":">> \o param[i] \o <<"}">>]

\* paramReg[1].split(',').map(p => p.trim())
SplitParams(group) ==
    LET Trimmed(parts) == [i \in DOMAIN parts |-> Trim(parts[i])]
    IN  Trimmed(Split(group, ","))

CommitChars == <<"\t", " ", "\n">>

\* the fields of a CompletionItem of kind Function without documentation
UndocumentedFunction(value, name) ==
    LET WithParams(param) ==
            [kind       |-> "Function",
             insertText |-> [snippet |-> TRUE,
                             value |-> name \o <<"(">>
                                 \o Join(Placeholders(param), <<",", " ">>)
                                 \o <<")", "$", "0">>],
             detail     |-> [text |-> name \o <<"(">>
                                 \o Join(param, <<",", " ">>) \o <<")">>]]
        Of(paramReg) ==
            IF paramReg.found /\ ~isBlank(paramReg.group)
            THEN WithParams(SplitParams(paramReg.group))
            ELSE [kind       |-> "Function",
                  insertText |-> [snippet |-> TRUE,
                                  value |-> name \o <<"(", ")", "$", "0">>],
                  detail     |-> [text |-> name]]
    IN  Of(ParamExec(value))

\* the CompletionItem built for one raw match value
NewCmpItem(value, name, doc) ==
    [label            |-> name,
     commitCharacters |-> IF ~Contains(value, KwGlobal) /\ ~Contains(value, KwThread)
                             /\ doc.found
                          THEN CommitChars \o <<"(">> ELSE CommitChars,
     documentation    |-> IF doc.found THEN Some(doc.method.Documentation)
                          ELSE Undefined]
    @@
    (IF Contains(value, KwGlobal)
     THEN [kind       |-> "Variable",
           insertText |-> [snippet |-> FALSE, value |-> name],
           detail     |-> [text |-> KwGlobal \o <<" ">> \o name]]
     ELSE IF Contains(value, KwThread)
     THEN [kind       |-> "Variable",
           insertText |-> [snippet |-> FALSE, value |-> name \o <<"(",")">>],
           detail     |-> [text |-> KwThread \o <<" ">> \o name]]
     ELSE IF doc.found
     THEN [kind       |-> "Function",
           insertText |-> [snippet |-> TRUE, value |-> doc.method.Name],
           detail     |-> [label |-> doc.method.Label]]
     ELSE UndocumentedFunction(value, name))

\* a membership test that finds no label
HasLabelNever(cmpItems, name) == FALSE

HasLabel(cmpItems, name) == \E i \in DOMAIN cmpItems : cmpItems[i].label = name

\* the body of the forEach of parseCmpItem for one element of the match array
ParseCmpValue(value, cmpItems, oldLines) ==
    LET Of(nameReg) ==
            IF nameReg.found /\ ~HasLabel(cmpItems, nameReg.text)
            THEN Append(cmpItems,
                        NewCmpItem(value, nameReg.text,
                                   findDoc(nameReg.text, oldLines)))
            ELSE cmpItems
    IN  Of(NameExec(value, 0))

\* matchResult is [match[0], match[1], match[2]]; match[2], the trailing group,
\* never takes part in a match and is skipped as undefined
parseCmpItem(matchResult, cmpItems, oldLines) ==
    IF ~matchResult.found THEN cmpItems
    ELSE ParseCmpValue(matchResult.kw,
                       ParseCmpValue(matchResult.text, cmpItems, oldLines),
                       oldLines)

UserFunctionMark == <<"*","u","s","e","r"," ","f","u","n","c","t","i","o","n","*">>

\* the items of the Hover of an undocumented def
UndocumentedHover(step, name) ==
    LET Of(paramReg) ==
            <<[kind |-> "markdown", text |-> UserFunctionMark],
              [kind |-> "markdown",
               text |-> IF paramReg.found
                        THEN name \o <<"(">>
                             \o Join(SplitParams(paramReg.group), <<",", " ">>)
                             \o <<")">>
                        ELSE name \o <<"(", ")">>]>>
    IN  Of(ParamExec(step))

\* the items parseHover collects for the name found in step
HoverItems(step, name, doc) ==
    (IF Contains(step, KwGlobal)
     THEN <<[kind |-> "code", text |-> KwGlobal \o <<" ">> \o name]>>
     ELSE IF Contains(step, KwThread)
     THEN <<[kind |-> "code", text |-> KwThread \o <<" ", " ">> \o name]>>
     ELSE IF doc.found
     THEN <<[kind |-> "code", label |-> doc.method.Label]>>
     ELSE UndocumentedHover(step, name))
    \o
    (IF doc.found
     THEN <<[kind |-> "documentation", doc |-> doc.method.Documentation]>>
     ELSE <<>>)

parseHover(matchResult, oldLines) ==
    LET Of(nameReg) ==
            IF nameReg.found
            THEN Some([items |-> HoverItems(matchResult.text, nameReg.text,
                                            findDoc(nameReg.text, oldLines))])
            ELSE Undefined
    IN  IF ~matchResult.found THEN Undefined
        ELSE Of(NameExec(matchResult.text, 0))

\* the SignatureHelp built from a documentation
NewSignatureHelp(label, parameters) ==
    [activeParameter |-> 0,
     activeSignature |-> 0,
     signatures      |-> <<[label |-> label, parameters |-> parameters]>>]

parseSignature(matchResult, oldLines) ==
    LET OfDoc(doc) ==
            IF doc.found
            THEN Some(NewSignatureHelp(doc.method.Label, doc.method.Parameters))
            ELSE Undefined
        Of(nameReg) ==
            IF nameReg.found THEN OfDoc(findDoc(nameReg.text, oldLines))
            ELSE Undefined
    IN  IF ~matchResult.found THEN Undefined
        ELSE Of(NameExec(matchResult.text, 0))

(***************************************************************************)
(* The scan drivers.  A file is [path, readable, lines]; a workspace       *)
(* folder is [fsPath, entries], its entries [name, readable, lines] in     *)
(* directory order.                                                        *)
(***************************************************************************)
\* the capacity test of the line window: oldLines.length > 20
WindowLimit == 20

\* new ReadLinesSync(fileName): the (lineNo, line) pairs of the file in order;
\* a file that cannot be read yields none
ReadLinesSync(file) ==
    IF file.readable
    THEN [i \in DOMAIN file.lines |-> [lineNo |-> i - 1, line |-> file.lines[i]]]
    ELSE <<>>

\* if (oldLines.length > 20) { oldLines.shift(); } oldLines.push(cur)
PushLine(oldLines, cur) ==
    Append(IF Len(oldLines) > WindowLimit THEN Tail(oldLines) ELSE oldLines, cur)

\* getCompletionItemsFromText: the while loop over one RegExp object
RECURSIVE CmpTextLoop(_, _, _, _)
CmpTextLoop(text, lastIndex, keyword, cmpItems) ==
    LET Of(match) ==
            IF ~match.found THEN cmpItems
            ELSE CmpTextLoop(text, match.lastIndex, keyword,
                             parseCmpItem(match, cmpItems, NoWindow))
    IN  Of(MthdExec(text, lastIndex, DeclKeywords, keyword))

getCompletionItemsFromText(text, keyword, cmpItems) ==
    CmpTextLoop(text, 0, keyword, cmpItems)

\* the locals of getCompletionItemsFromFile on entry to its loop
CmpFileInit(cmpItems) ==
    [lastIndex |-> 0, oldLines |-> <<>>, cmpItems |-> cmpItems, done |-> FALSE]

\* one iteration of the loop of getCompletionItemsFromFile
CmpFileBody(st, pkg, keyword) ==
    LET OfMatch(cur, match) ==
            [st EXCEPT !.lastIndex = match.lastIndex,
                       !.cmpItems  = parseCmpItem(match, st.cmpItems,
                                                  Window(st.oldLines)),
                       !.oldLines  = PushLine(st.oldLines, cur)]
        Of(cur) == OfMatch(cur, MthdExec(cur, st.lastIndex, DeclKeywords, keyword))
    IN  IF pkg.line = <<>> THEN st ELSE Of(Trim(pkg.line))

RECURSIVE CmpFileLoop(_, _, _)
CmpFileLoop(st, pkgs, keyword) ==
    IF pkgs = <<>> THEN st
    ELSE CmpFileLoop(CmpFileBody(st, Head(pkgs), keyword), Tail(pkgs), keyword)

getCompletionItemsFromFile(file, keyword, cmpItems) ==
    CmpFileLoop(CmpFileInit(cmpItems), ReadLinesSync(file), keyword).cmpItems

\* file.endsWith('.script')
ScriptExt == <<".","s","c","r","i","p","t">>

PathSeparators == {"/", "|", "\\"}

\* explored.split(/.*[\/|\\]/)[1]: what follows the last separator, undefined
\* when the path holds no separator
Basename(explored) ==
    LET After(i) == IF i = 0 THEN Undefined
                    ELSE Some(SubSeq(explored, i + 1, Len(explored)))
    IN  After(MaxOr({i \in 1..Len(explored) : explored[i] \in PathSeparators}, 0))

\* `${workspace.uri.fsPath}\\${file}`
EntryFile(folder, entry) ==
    [path     |-> folder.fsPath \o <<"\\">> \o entry.name,
     readable |-> entry.readable,
     lines    |-> entry.lines]

\* readdirSync(...).filter(...).map(...); skip is the excluded base name
RECURSIVE ScriptFiles(_, _, _)
ScriptFiles(folder, entries, skip) ==
    IF entries = <<>> THEN <<>>
    ELSE (IF EndsWith(Head(entries).name, ScriptExt) /\ Some(Head(entries).name) # skip
          THEN <<EntryFile(folder, Head(entries))>> ELSE <<>>)
         \o ScriptFiles(folder, Tail(entries), skip)

RECURSIVE CmpWorkspaceLoop(_, _, _)
CmpWorkspaceLoop(files, keyword, cmpItems) ==
    IF files = <<>> THEN cmpItems
    ELSE CmpWorkspaceLoop(Tail(files), keyword,
                          getCompletionItemsFromFile(Head(files), keyword, cmpItems))

\* the filter of this driver excludes no file by name
getCompletionItemsFromWorkspace(folder, keyword, cmpItems) ==
    CmpWorkspaceLoop(ScriptFiles(folder, folder.entries, Undefined), keyword, cmpItems)

getHoverFromText(text, keyword) ==
    parseHover(MthdExec(text, 0, DeclKeywords, keyword), NoWindow)

\* the locals of getHoverFromFile / getSignatureFromFile on entry to the loop
LookupFileInit ==
    [lastIndex |-> 0, oldLines |-> <<>>, result |-> Undefined, done |-> FALSE]

\* the end of an iteration of a lookup loop: break on a result, else push cur
LookupFileEnd(st, cur, match, result) ==
    IF result.defined
    THEN [st EXCEPT !.lastIndex = match.lastIndex, !.result = result, !.done = TRUE]
    ELSE [st EXCEPT !.lastIndex = match.lastIndex, !.result = result,
                    !.oldLines = PushLine(st.oldLines, cur)]

\* one iteration of the loop of getHoverFromFile
HoverFileBody(st, pkg, keyword) ==
    LET OfMatch(cur, match) ==
            LookupFileEnd(st, cur, match, parseHover(match, Window(st.oldLines)))
        Of(cur) == OfMatch(cur, MthdExec(cur, st.lastIndex, DeclKeywords, keyword))
    IN  IF pkg.line = <<>> THEN st ELSE Of(Trim(pkg.line))

RECURSIVE HoverFileLoop(_, _, _)
HoverFileLoop(st, pkgs, keyword) ==
    IF pkgs = <<>> \/ st.done THEN st
    ELSE HoverFileLoop(HoverFileBody(st, Head(pkgs), keyword), Tail(pkgs), keyword)

getHoverFromFile(file, keyword) ==
    HoverFileLoop(LookupFileInit, ReadLinesSync(file), keyword).result

RECURSIVE HoverWorkspaceLoop(_, _)
HoverWorkspaceLoop(files, keyword) ==
    LET Of(hov) == IF hov.defined THEN hov
                   ELSE HoverWorkspaceLoop(Tail(files), keyword)
    IN  IF files = <<>> THEN Undefined
        ELSE Of(getHoverFromFile(Head(files), keyword))

getHoverFromWorkspace(folder, keyword, explored) ==
    HoverWorkspaceLoop(ScriptFiles(folder, folder.entries, Basename(explored)), keyword)

\* one iteration of the loop of getSignatureFromFile
SigFileBody(st, pkg, keyword) ==
    LET OfMatch(cur, match) ==
            LookupFileEnd(st, cur, match, parseSignature(match, Window(st.oldLines)))
        Of(cur) == OfMatch(cur, MthdExec(cur, st.lastIndex, {KwDef}, keyword))
    IN  IF pkg.line = <<>> THEN st ELSE Of(Trim(pkg.line))

RECURSIVE SigFileLoop(_, _, _)
SigFileLoop(st, pkgs, keyword) ==
    IF pkgs = <<>> \/ st.done THEN st
    ELSE SigFileLoop(SigFileBody(st, Head(pkgs), keyword), Tail(pkgs), keyword)

getSignatureFromFile(file, keyword) ==
    SigFileLoop(LookupFileInit, ReadLinesSync(file), keyword).result

RECURSIVE SigWorkspaceLoop(_, _)
SigWorkspaceLoop(files, keyword) ==
    LET Of(sigHelp) == IF sigHelp.defined THEN sigHelp
                       ELSE SigWorkspaceLoop(Tail(files), keyword)
    IN  IF files = <<>> THEN Undefined
        ELSE Of(getSignatureFromFile(Head(files), keyword))

getSignatureFromWorkspace(folder, keyword, explored) ==
    SigWorkspaceLoop(ScriptFiles(folder, folder.entries, Basename(explored)), keyword)

\* the locals of getLocationFromFile on entry to its loop: both patterns carry
\* the "g" flag, so both keep a lastIndex
LocFileInit ==
    [lastIndex |-> 0, nameLastIndex |-> 0, locColl |-> <<>>, done |-> FALSE]

\* one iteration of the loop of getLocationFromFile
LocFileBody(st, path, pkg, keyword) ==
    LET OfName(match, nameReg) ==
            [st EXCEPT
               !.lastIndex     = match.lastIndex,
               !.nameLastIndex = nameReg.lastIndex,
               !.locColl       =
                   IF nameReg.found
                   THEN Append(@, [uri       |-> path,
                                   line      |-> pkg.lineNo,
                                   character |-> nameReg.index])
                   ELSE @]
        Of(match) ==
            IF ~match.found THEN [st EXCEPT !.lastIndex = match.lastIndex]
            ELSE OfName(match, NameExec(match.text, st.nameLastIndex))
    IN  IF pkg.line = <<>> THEN st
        ELSE Of(MthdExec(pkg.line, st.lastIndex, DeclKeywords, keyword))

RECURSIVE LocFileLoop(_, _, _, _)
LocFileLoop(st, path, pkgs, keyword) ==
    IF pkgs = <<>> THEN st
    ELSE LocFileLoop(LocFileBody(st, path, Head(pkgs), keyword), path,
                     Tail(pkgs), keyword)

getLocationFromFile(file, keyword) ==
    LocFileLoop(LocFileInit, file.path, ReadLinesSync(file), keyword).locColl

\* a loop over the files that gives up at the first file it cannot read
RECURSIVE LocWorkspaceLoopAbort(_, _, _)
LocWorkspaceLoopAbort(files, keyword, locColl) ==
    IF files = <<>> \/ ~Head(files).readable THEN locColl
    ELSE LocWorkspaceLoopAbort(Tail(files), keyword,
                               locColl \o getLocationFromFile(Head(files), keyword))

RECURSIVE LocWorkspaceLoop(_, _, _)
LocWorkspaceLoop(files, keyword, locColl) ==
    IF files = <<>> THEN locColl
    ELSE LocWorkspaceLoop(Tail(files), keyword,
                          locColl \o getLocationFromFile(Head(files), keyword))

getLocationFromWorkspace(folder, keyword, explored) ==
    LocWorkspaceLoop(ScriptFiles(folder, folder.entries, Basename(explored)),
                     keyword, <<>>)

(***************************************************************************)
(* The signature help provider.  A SignatureHelp the provider hands out is *)
(* an object reference: the Item of a catalog entry, or an object built by *)
(* a lookup.  document is [fileName, lines]; position is [line, character].*)
(***************************************************************************)
\* new ScriptSignature(mthd)
ScriptSignature(mthd) ==
    [Name |-> mthd.Name, Item |-> NewSignatureHelp(mthd.Label, mthd.Parameters)]

\* the constructor of URScriptSignatureHelpProvider
NewProvider(funcs) == [i \in DOMAIN funcs |-> ScriptSignature(funcs[i])]

\* matched.Item of the i-th catalog entry
BuiltinRef(i) == [builtin |-> TRUE, index |-> i]

\* a SignatureHelp built by a lookup
ObjectRef(help) == [builtin |-> FALSE, help |-> help]

\* s.substr(start, length) for start >= 0
Substr(s, start, length) ==
    IF length <= 0 \/ start >= Len(s) THEN <<>>
    ELSE Sub(s, start, Min({Len(s), start + length}))

\* document.getText(document.getWordRangeAtPosition(new Position(line, p))):
\* the run of word characters that touches p; without one the range is
\* undefined and getText returns the whole document
WordAt(document, text, p) ==
    LET Of(a, b) == IF a < b THEN Sub(text, a, b)
                    ELSE Join(document.lines, <<"\n">>)
    IN  Of(SkipBack(text, p, WordChars), SkipWhile(text, p, WordChars))

\* the lookup in the text of the document being edited
getSignatureFromDocument(document, keyword) ==
    SigFileLoop(LookupFileInit,
                [i \in DOMAIN document.lines |->
                    [lineNo |-> i - 1, line |-> document.lines[i]]],
                keyword).result

\* a loop over the folders that goes on after a result
RECURSIVE FolderLoopNoBreak(_, _, _, _, _, _)
FolderLoopNoBreak(folders, i, word, fileName, sigHelp, log) ==
    IF i > Len(folders) THEN [sigHelp |-> sigHelp, log |-> log]
    ELSE FolderLoopNoBreak(folders, i + 1, word, fileName,
                           getSignatureFromWorkspace(folders[i], word, fileName),
                           Append(log, i))

\* for (const fold of workspace.workspaceFolders) {...; if (sigHelp) break; }
\* log records the folders searched, in order
RECURSIVE FolderLoop(_, _, _, _, _, _)
FolderLoop(folders, i, word, fileName, sigHelp, log) ==
    LET Of(found) ==
            IF found.defined THEN [sigHelp |-> found, log |-> Append(log, i)]
            ELSE FolderLoop(folders, i + 1, word, fileName, found, Append(log, i))
    IN  IF i > Len(folders) THEN [sigHelp |-> sigHelp, log |-> log]
        ELSE Of(getSignatureFromWorkspace(folders[i], word, fileName))

\* the else branch of provideSignatureHelp: catalog, document, folders.
\* log records the places searched after the catalog: 0 the document, i the
\* i-th workspace folder
FreshLookup(sigs, document, word, folders) ==
    LET Wrap(r) ==
            [result |-> IF r.sigHelp.defined THEN Some(ObjectRef(r.sigHelp.value))
                        ELSE Undefined,
             sigs   |-> sigs,
             log    |-> r.log]
        OfDocument(sigHelp) ==
            IF ~sigHelp.defined /\ folders.defined
            THEN Wrap(FolderLoop(folders.value, 1, word, document.fileName,
                                 sigHelp, <<0>>))
            ELSE Wrap([sigHelp |-> sigHelp, log |-> <<0>>])
        OfMatched(m) ==
            IF m # 0
            THEN [result |-> Some(BuiltinRef(m)),
                  sigs   |-> [sigs EXCEPT ![m].Item.activeParameter = 0,
                                          ![m].Item.activeSignature = 0],
                  log    |-> <<>>]
            ELSE OfDocument(getSignatureFromDocument(document, word))
    IN  OfMatched(MinOr({i \in DOMAIN sigs : sigs[i].Name = word}, 0))

\* the retrigger branch: the active help gets activeParameter = paraAry.length - 1
Retrigger(sigs, text, parLeft, character, active) ==
    LET Of(index) ==
            IF active.builtin
            THEN [result |-> Some(active),
                  sigs   |-> [sigs EXCEPT ![active.index].Item.activeParameter = index],
                  log    |-> <<>>]
            ELSE [result |-> Some(ObjectRef([active.help EXCEPT
                                                !.activeParameter = index])),
                  sigs   |-> sigs,
                  log    |-> <<>>]
    IN  Of(Len(Split(Substr(text, parLeft + 1, character - parLeft - 1), ",")) - 1)

\* (position.character < parLeft) || (parRight < position.character)
OutOfRange(parLeft, parRight, character) ==
    (character < parLeft) \/ (parRight < character)

\* provideSignatureHelp.  An exception (the line does not exist, new Position
\* is given a negative character) is caught by the catch-all, which returns
\* undefined
provideSignatureHelp(sigs, document, position, context, folders) ==
    LET None == [result |-> Undefined, sigs |-> sigs, log |-> <<>>]
        Of(text, parLeft, parRight) ==
            IF OutOfRange(parLeft, parRight, position.character)
            THEN None
            ELSE IF context.isRetrigger /\ context.activeSignatureHelp.defined
            THEN Retrigger(sigs, text, parLeft, position.character,
                           context.activeSignatureHelp.value)
            ELSE IF parLeft - 1 < 0
            THEN None
            ELSE FreshLookup(sigs, document,
                             WordAt(document, text, parLeft - 1), folders)
        OfLine(text, parLeft) ==
            Of(text, parLeft, IndexOf(text, <<")">>, parLeft))
    IN  IF position.line < 0 \/ position.line >= Len(document.lines)
        THEN None
        ELSE OfLine(document.lines[position.line + 1],
                    IndexOf(document.lines[position.line + 1], <<"(">>, 0))

(***************************************************************************)
(* Inputs                                                                  *)
(***************************************************************************)
MaxLines == 3

MaxLong == 25

MaxScans == 2

MaxReqLines == 2

Sp == <<" ">>

NameAdd == <<"a","d","d">>

NameFoo == <<"f","o","o">>

NameBar == <<"b","a","r">>

NameMove == <<"m","o","v","e">>

NameMover == <<"m","o","v","e","r">>

NameMovej == <<"m","o","v","e","j">>

WordAdds == <<"a","d","d","s">>

ArgsAB == <<"(","a",","," ","b",")",":">>

ArgsNone == <<"(",")",":">>

LSummary == <<"#"," ">> \o WordAdds

LParamA == <<"#"," ">> \o AtParam \o <<" ","a"," ">> \o TNumber \o <<" ","x">>

LParamB == <<"#"," ">> \o AtParam \o <<" ","b"," ">> \o TNumber \o <<" ","y">>

LReturns == <<"#"," ">> \o AtReturns \o Sp \o TNumber \o <<" ","s">>

LDefAdd == KwDef \o Sp \o NameAdd \o ArgsAB

LDefFoo == KwDef \o Sp \o NameFoo \o ArgsAB

LDefBar == KwDef \o Sp \o NameBar \o ArgsNone

LDefMove == KwDef \o Sp \o NameMove \o ArgsNone

LDefMover == KwDef \o Sp \o NameMover \o ArgsNone

LIndentMove == <<" "," ">> \o LDefMove

LGlobal == KwGlobal \o Sp \o <<"g","1">>

LThread == KwThread \o Sp \o <<"t","1">> \o ArgsNone

LEnd == <<"e","n","d">>

\* every sequence over pool of length at most n
RECURSIVE SeqsUpTo(_, _)
SeqsUpTo(pool, n) ==
    IF n = 0 THEN {<<>>}
    ELSE {<<>>} \cup {Append(q, l) : q \in SeqsUpTo(pool, n - 1), l \in pool}

\* the documented declaration of add
DocBlock == <<Sentinel, LSummary, LParamA, LParamB, LReturns, Sentinel>>

DocText == DocBlock \o <<LDefAdd>>

\* n numbered comment lines
Numbered(n) == [i \in 1..n |-> <<"#"," ">> \o Numeral(i)]

ScanPool == {Sentinel, LSummary, LDefFoo, LDefBar, LGlobal, <<>>}

ScanTexts ==
    SeqsUpTo(ScanPool, MaxLines)
    \cup {DocText, <<LEnd>> \o DocText, <<Sentinel, LDefFoo, LDefAdd>>}
    \cup {Numbered(n) \o tail : n \in 0..MaxLong,
                                tail \in {<<>>, <<LDefFoo>>, <<LThread, LEnd>>}}

ScanKeywords == {<<>>, NameAdd, NameFoo, <<"b">>}

PathA == <<"w","\\","a">> \o ScriptExt

\* the lines of a text joined into one string
TextOf(ls) == Join(ls, <<"\n">>)

\* the sources the lookup requests read
ReqPool == {LDefFoo, LDefMove, LDefMover, LGlobal, LEnd}

ReqTexts ==
    SeqsUpTo(ReqPool, MaxReqLines) \cup {DocText, <<LDefMove, LEnd, LIndentMove>>}

\* the sources the completion requests read
CmpTexts == SeqsUpTo({LDefFoo, LGlobal}, MaxReqLines) \cup {DocText}

CmpKeywords == {<<>>, NameFoo}

ReqKeywords == {<<>>, NameAdd, NameMove, NameFoo}

FileNames ==
    <<<<"a">> \o ScriptExt, <<"b">> \o ScriptExt, <<"c">> \o ScriptExt>>

NoteName == <<"n",".","t","x","t">>

FolderW == <<"w">>

\* what a directory entry of a workspace folder may hold
EntryContents ==
    {[readable |-> TRUE, lines |-> ls] :
        ls \in {<<>>, <<LDefMove>>, <<LDefMover>>, <<LDefFoo, LGlobal>>, DocText}}
    \cup {[readable |-> FALSE, lines |-> <<>>]}

Entry(name, content) ==
    [name |-> name, readable |-> content.readable, lines |-> content.lines]

\* the folders of three script files (and one file of another kind)
Folders ==
    {[fsPath  |-> FolderW,
      entries |-> <<Entry(FileNames[1], a), Entry(NoteName, b),
                    Entry(FileNames[2], b), Entry(FileNames[3], c)>>] :
        a \in EntryContents, b \in EntryContents, c \in EntryContents}

CmpFolders ==
    {f \in Folders :
        \A i \in DOMAIN f.entries :
            f.entries[i].readable
            /\ f.entries[i].lines \in {<<>>, <<LDefMover>>, <<LDefFoo, LGlobal>>}}

\* the path of the file being edited
ExploredPaths == {PathA, <<"x",".","u","r">>}

\* the catalog the provider is constructed with: built-ins of two parameters
BuiltinInfo(name) ==
    [Name       |-> name,
     ReturnType |-> TNone,
     Return     |-> <<>>,
     Deprecated |-> <<>>,
     Comment    |-> <<>>,
     Parameters |-> <<[Label |-> <<"q">>, Type |-> TNumber, Comment |-> <<>>,
                       Default |-> <<>>],
                      [Label |-> <<"t">>, Type |-> TNumber, Comment |-> <<>>,
                       Default |-> <<>>]>>]

Builtins == <<ScriptMethod(BuiltinInfo(NameMovej)), ScriptMethod(BuiltinInfo(NameFoo))>>

\* the lines the cursor stands on: add(1,2,)  add(1,  foo(1,)  (
CallAddClosed == NameAdd \o <<"(","1",",","2",",",")">>

CallAddOpen == NameAdd \o <<"(","1",",">>

CallFoo == NameFoo \o <<"(","1",",",")">>

CallBare == <<"(">>

CallLines == {CallAddClosed, CallAddOpen, CallFoo, CallBare}

FolderV == <<"v">>

\* a folder of a.script (the name of the edited file) and b.script
SigFolder(path, a, b) ==
    [fsPath  |-> path,
     entries |-> <<[name |-> FileNames[1], readable |-> TRUE, lines |-> a],
                   [name |-> FileNames[2], readable |-> TRUE, lines |-> b]>>]

\* add is documented in b.script
FolderAdd == SigFolder(FolderW, <<>>, DocText)

FolderAddV == SigFolder(FolderV, <<>>, DocText)

\* add is documented only in a.script, which the scan skips
FolderNone == SigFolder(FolderW, DocText, <<LDefFoo>>)

\* the text above the cursor line and workspace.workspaceFolders
SigScenarios ==
    {[above |-> DocText, folders |-> Some(<<FolderAdd>>)],
     [above |-> <<>>,    folders |-> Undefined],
     [above |-> <<>>,    folders |-> Some(<<FolderNone, FolderAdd, FolderAddV>>)]}

(***************************************************************************)
(* The state                                                               *)
(***************************************************************************)
VARIABLES
    driver,     \* the file scan driver that is running
    file,       \* the file it reads
    keyword,    \* the keyword it looks for
    pos,        \* how many (lineNo, line) pairs the loop has consumed
    st,         \* the locals of the driver: patterns' lastIndex, oldLines, result
    cmpItems,   \* the completion list the completion scans accumulate into
    scans,      \* how many scans have accumulated into cmpItems
    request,    \* the last scan request, with its arguments
    response,   \* what that request returned, in a field named after its kind
    scriptSignatures,  \* the catalog of the signature help provider
    sigReq,     \* the arguments of the last provideSignatureHelp call
    sigRes      \* what that call returned (the help the editor then shows) and
                \* the places it searched

scanVars == <<driver, file, keyword, pos, st>>

reqVars == <<cmpItems, scans, request, response>>

sigVars == <<scriptSignatures, sigReq, sigRes>>

vars == <<scanVars, reqVars, sigVars>>

ScanIdle ==
    /\ driver = "none"
    /\ file = [path |-> <<>>, readable |-> TRUE, lines |-> <<>>]
    /\ keyword = <<>>
    /\ pos = 0
    /\ st = LookupFileInit

ReqIdle ==
    /\ cmpItems = <<>>
    /\ scans = 0
    /\ request = [kind |-> "none"]
    /\ response = [idle |-> TRUE]

SigIdle ==
    /\ scriptSignatures = NewProvider(Builtins)
    /\ sigReq = [kind |-> "none"]
    /\ sigRes = [result |-> Undefined, log |-> <<>>]

(***************************************************************************)
(* SpecScan: one file scan driver, one loop iteration per step             *)
(***************************************************************************)
ScanInit ==
    /\ driver \in {"completion", "hover", "signature", "location"}
    /\ \E ls \in ScanTexts : file = [path |-> PathA, readable |-> TRUE, lines |-> ls]
    /\ keyword \in ScanKeywords
    /\ pos = 0
    /\ st = CASE driver = "completion" -> CmpFileInit(<<>>)
              [] driver = "location"   -> LocFileInit
              [] OTHER                 -> LookupFileInit
    /\ ReqIdle
    /\ SigIdle

MoreLines == pos < Len(ReadLinesSync(file)) /\ ~st.done

NextPkg == ReadLinesSync(file)[pos + 1]

CmpFileStep ==
    /\ driver = "completion" /\ MoreLines
    /\ st' = CmpFileBody(st, NextPkg, keyword)
    /\ pos' = pos + 1
    /\ UNCHANGED <<driver, file, keyword, reqVars, sigVars>>

HoverFileStep ==
    /\ driver = "hover" /\ MoreLines
    /\ st' = HoverFileBody(st, NextPkg, keyword)
    /\ pos' = pos + 1
    /\ UNCHANGED <<driver, file, keyword, reqVars, sigVars>>

SigFileStep ==
    /\ driver = "signature" /\ MoreLines
    /\ st' = SigFileBody(st, NextPkg, keyword)
    /\ pos' = pos + 1
    /\ UNCHANGED <<driver, file, keyword, reqVars, sigVars>>

LocFileStep ==
    /\ driver = "location" /\ MoreLines
    /\ st' = LocFileBody(st, file.path, NextPkg, keyword)
    /\ pos' = pos + 1
    /\ UNCHANGED <<driver, file, keyword, reqVars, sigVars>>

ScanNext == CmpFileStep \/ HoverFileStep \/ SigFileStep \/ LocFileStep

SpecScan == ScanInit /\ [][ScanNext]_vars

ScanDone == ~MoreLines

(***************************************************************************)
(* SpecCmp: completion scans accumulating into one list, each step one     *)
(* call of an exported completion function                                 *)
(***************************************************************************)
CmpInit == ScanIdle /\ ReqIdle /\ SigIdle

AsFile(ls) == [path |-> PathA, readable |-> TRUE, lines |-> ls]

\* a new completion request starts from an empty list
NewCompletion ==
    /\ cmpItems # <<>>
    /\ cmpItems' = <<>>
    /\ scans' = 0
    /\ request' = [kind |-> "newCompletion", before |-> <<>>]
    /\ UNCHANGED <<scanVars, response, sigVars>>

CompletionFromText ==
    /\ scans < MaxScans
    /\ \E ls \in CmpTexts, kw \in CmpKeywords :
        /\ cmpItems' = getCompletionItemsFromText(TextOf(ls), kw, cmpItems)
        /\ request' = [kind |-> "completionText", before |-> cmpItems,
                       lines |-> ls]
    /\ scans' = scans + 1
    /\ UNCHANGED <<scanVars, response, sigVars>>

CompletionFromFile ==
    /\ scans < MaxScans
    /\ \E ls \in CmpTexts, kw \in CmpKeywords :
        /\ cmpItems' = getCompletionItemsFromFile(AsFile(ls), kw, cmpItems)
        /\ request' = [kind |-> "completionFile", before |-> cmpItems,
                       lines |-> ls]
    /\ scans' = scans + 1
    /\ UNCHANGED <<scanVars, response, sigVars>>

CompletionFromWorkspace ==
    /\ scans < MaxScans
    /\ \E folder \in CmpFolders, kw \in CmpKeywords :
        /\ cmpItems' = getCompletionItemsFromWorkspace(folder, kw, cmpItems)
        /\ request' = [kind |-> "completionWorkspace", before |-> cmpItems,
                       folder |-> folder]
    /\ scans' = scans + 1
    /\ UNCHANGED <<scanVars, response, sigVars>>

CmpNext ==
    \/ NewCompletion
    \/ CompletionFromText
    \/ CompletionFromFile
    \/ CompletionFromWorkspace

SpecCmp == CmpInit /\ [][CmpNext]_vars

(***************************************************************************)
(* SpecReq: one lookup request, one call of an exported lookup function.   *)
(* Lookups share no state, so every behaviour is a single request.         *)
(***************************************************************************)
ReqInit == ScanIdle /\ ReqIdle /\ SigIdle

Idle == request.kind = "none"

HoverFromText ==
    /\ Idle
    /\ \E ls \in ReqTexts, kw \in ReqKeywords :
        /\ response' = [hover |-> getHoverFromText(TextOf(ls), kw)]
        /\ request' = [kind |-> "hoverText", lines |-> ls, keyword |-> kw]
    /\ UNCHANGED <<scanVars, cmpItems, scans, sigVars>>

HoverFromFile ==
    /\ Idle
    /\ \E ls \in ReqTexts, kw \in ReqKeywords :
        /\ response' = [hover |-> getHoverFromFile(AsFile(ls), kw)]
        /\ request' = [kind |-> "hoverFile", lines |-> ls, keyword |-> kw]
    /\ UNCHANGED <<scanVars, cmpItems, scans, sigVars>>

HoverFromWorkspace ==
    /\ Idle
    /\ \E folder \in Folders, kw \in ReqKeywords, explored \in ExploredPaths :
        /\ response' = [hover |-> getHoverFromWorkspace(folder, kw, explored)]
        /\ request' = [kind |-> "hoverWorkspace", folder |-> folder,
                       keyword |-> kw, explored |-> explored]
    /\ UNCHANGED <<scanVars, cmpItems, scans, sigVars>>

LocationFromWorkspace ==
    /\ Idle
    /\ \E folder \in Folders, kw \in ReqKeywords, explored \in ExploredPaths :
        /\ response' = [locations |-> getLocationFromWorkspace(folder, kw, explored)]
        /\ request' = [kind |-> "locationWorkspace", folder |-> folder,
                       keyword |-> kw, explored |-> explored]
    /\ UNCHANGED <<scanVars, cmpItems, scans, sigVars>>

SignatureFromWorkspace ==
    /\ Idle
    /\ \E folder \in Folders, kw \in ReqKeywords, explored \in ExploredPaths :
        /\ response' = [signature |-> getSignatureFromWorkspace(folder, kw, explored)]
        /\ request' = [kind |-> "signatureWorkspace", folder |-> folder,
                       keyword |-> kw, explored |-> explored]
    /\ UNCHANGED <<scanVars, cmpItems, scans, sigVars>>

\* the completion scan of a workspace, from an empty list
CompletionOfWorkspace ==
    /\ Idle
    /\ \E folder \in Folders, kw \in ReqKeywords :
        /\ response' = [completions |->
                            getCompletionItemsFromWorkspace(folder, kw, <<>>)]
        /\ request' = [kind |-> "completionWorkspace", folder |-> folder,
                       keyword |-> kw, explored |-> <<>>]
    /\ UNCHANGED <<scanVars, cmpItems, scans, sigVars>>

ReqNext ==
    \/ HoverFromText
    \/ HoverFromFile
    \/ HoverFromWorkspace
    \/ LocationFromWorkspace
    \/ SignatureFromWorkspace
    \/ CompletionOfWorkspace

SpecReq == ReqInit /\ [][ReqNext]_vars

(***************************************************************************)
(* SpecSig: the editor calling provideSignatureHelp, one call per step.    *)
(* The editor shows what a call returns and passes it to the next call as  *)
(* context.activeSignatureHelp; it shows nothing after an undefined result.*)
(***************************************************************************)
SigInit == ScanIdle /\ ReqIdle /\ SigIdle

\* the documents: a text above, then the line the cursor stands on
SigDocument(above, cur) == [fileName |-> PathA, lines |-> above \o <<cur>>]

Call(document, position, context, folders) ==
    LET Of(r) ==
            /\ scriptSignatures' = r.sigs
            /\ sigRes' = [result |-> r.result, log |-> r.log]
            /\ sigReq' = [kind        |-> "call",
                          document    |-> document,
                          position    |-> position,
                          isRetrigger |-> context.isRetrigger,
                          active      |-> context.activeSignatureHelp,
                          folders     |-> folders,
                          before      |-> scriptSignatures]
    IN  Of(provideSignatureHelp(scriptSignatures, document, position, context,
                                folders))

\* a trigger character was typed, or signature help was invoked
FreshTrigger ==
    /\ \E sc \in SigScenarios, cur \in CallLines :
         \E character \in 0..Len(cur) :
            Call(SigDocument(sc.above, cur),
                 [line |-> Len(sc.above), character |-> character],
                 [isRetrigger |-> FALSE, activeSignatureHelp |-> sigRes.result],
                 sc.folders)
    /\ UNCHANGED <<scanVars, reqVars>>

\* a retrigger character was typed while signature help is showing
RetriggerCall ==
    /\ sigRes.result.defined
    /\ \E sc \in SigScenarios, cur \in CallLines :
         \E character \in 0..Len(cur) :
            Call(SigDocument(sc.above, cur),
                 [line |-> Len(sc.above), character |-> character],
                 [isRetrigger |-> TRUE, activeSignatureHelp |-> sigRes.result],
                 sc.folders)
    /\ UNCHANGED <<scanVars, reqVars>>

SigNext == FreshTrigger \/ RetriggerCall

SpecSig == SigInit /\ [][SigNext]_vars

(***************************************************************************)
(* Properties of the file scan drivers (SpecScan)                          *)
(***************************************************************************)
HasWindow == driver \in {"completion", "hover", "signature"}

\* the lines the loop has pushed so far: the non-empty lines read, trimmed; the
\* line a lookup driver stopped on is not pushed
RECURSIVE TrimmedNonEmpty(_)
TrimmedNonEmpty(ls) ==
    IF ls = <<>> THEN <<>>
    ELSE (IF Head(ls) = <<>> THEN <<>> ELSE <<Trim(Head(ls))>>)
         \o TrimmedNonEmpty(Tail(ls))

FedLines == TrimmedNonEmpty(SubSeq(file.lines, 1, IF st.done THEN pos - 1 ELSE pos))

LastN(s, n) == IF Len(s) <= n THEN s ELSE SubSeq(s, Len(s) - n + 1, Len(s))

\* C1: the line window a file scan driver hands to findDoc never holds more
\* than 20 lines; after k non-empty lines it holds exactly the last min(k, 20)
\* of them, in order.
C1_WindowHoldsLast20 ==
    HasWindow => /\ Len(st.oldLines) <= 20
                 /\ st.oldLines = LastN(FedLines, 20)

\* What the drivers do keep: the last min(k, 21) lines (one more than WindowLimit).
C1_WindowHoldsLast21 ==
    HasWindow => st.oldLines = LastN(FedLines, WindowLimit + 1)

\* the identifier a line declares for the keyword: the word that follows
\* def|thread|global and whitespace, when the first declaration of the line
\* starts with the keyword
DeclaredName(line, kw) ==
    LET Word(s, a) == Sub(s, a, SkipWhile(s, a, WordChars))
        Of(s, m) == IF m.found
                    THEN Some(Word(s, SkipWhile(s, m.index + Len(m.kw), Whitespace)))
                    ELSE Undefined
    IN  Of(Trim(line), MthdExec(Trim(line), 0, DeclKeywords, kw))

\* the distinct declared names of the lines, in the order of first declaration
RECURSIVE DeclaredNames(_, _, _)
DeclaredNames(ls, kw, seen) ==
    LET Of(n) == IF n.defined /\ n.value # <<>>
                    /\ \A i \in DOMAIN seen : seen[i] # n.value
                 THEN DeclaredNames(Tail(ls), kw, Append(seen, n.value))
                 ELSE DeclaredNames(Tail(ls), kw, seen)
    IN  IF ls = <<>> THEN seen ELSE Of(DeclaredName(Head(ls), kw))

Labels(items) == [i \in DOMAIN items |-> items[i].label]

\* C5: a completion scan of a file yields one entry for every distinct name a
\* line of the file declares for the keyword, whatever lines precede it, in the
\* order of first declaration.
C5_EntryForEveryDeclaration ==
    (driver = "completion" /\ ScanDone)
        => Labels(st.cmpItems) = DeclaredNames(file.lines, keyword, <<>>)

(***************************************************************************)
(* Properties of the accumulating completion scans (SpecCmp)               *)
(***************************************************************************)
NoDup(labels) ==
    \A i, j \in DOMAIN labels : labels[i] = labels[j] => i = j

IsPrefix(a, b) == Len(a) <= Len(b) /\ SubSeq(b, 1, Len(a)) = a

\* C4: after any sequence of completion scans accumulating into the same list
\* no two entries have the same label, and a scan leaves the entries that were
\* already in the list unchanged (it only appends).
C4_LabelsUnique ==
    /\ NoDup(Labels(cmpItems))
    /\ request.kind \in {"completionText", "completionFile", "completionWorkspace"}
         => IsPrefix(request.before, cmpItems)

\* a text holding `def foo(a, b):` twice has been scanned into an empty list
\* and the list holds the one entry foo
C4_Witness ==
    /\ request.kind = "completionText"
    /\ request.lines = <<LDefFoo, LDefFoo>>
    /\ request.before = <<>>
    /\ Labels(cmpItems) = <<NameFoo>>

\* a second scan has met a name the list already held
C4_WitnessAcrossScans ==
    /\ request.kind = "completionWorkspace"
    /\ scans = 2
    /\ request.before # <<>>
    /\ cmpItems = request.before
    /\ \E i \in DOMAIN request.folder.entries :
         request.folder.entries[i].lines = <<LDefMover>>

\* the declarative reading of the doc block of a window
HasDocBlock(w) ==
    /\ Len(w) >= 2
    /\ w[Len(w)] = Sentinel
    /\ \E i \in 1..(Len(w) - 1) : w[i] = Sentinel

NearestOpening(w) ==
    CHOOSE i \in 1..(Len(w) - 1) :
        /\ w[i] = Sentinel
        /\ \A j \in (i + 1)..(Len(w) - 1) : w[j] # Sentinel

FooMatch == MthdExec(LDefFoo, 0, DeclKeywords, <<>>)

\* C10: findDoc associates documentation exactly when the last line of the
\* window is the sentinel and an earlier line of the window is one too; the body
\* is then the lines strictly between the nearest earlier sentinel and the last
\* line.  Otherwise (no window, empty window, no closing or no opening sentinel)
\* it yields nothing, and completion entry and hover are still built from the
\* declaration.
C10_DocOnlyBetweenSentinels ==
    HasWindow =>
        LET Check(w, doc) ==
                /\ doc.found <=> HasDocBlock(w)
                /\ doc.found =>
                     doc.body = SubSeq(w, NearestOpening(w) + 1, Len(w) - 1)
                /\ ~doc.found =>
                     /\ parseHover(FooMatch, Window(w)).defined
                     /\ Labels(parseCmpItem(FooMatch, <<>>, Window(w))) = <<NameFoo>>
                     /\ ~parseCmpItem(FooMatch, <<>>, Window(w))[1].documentation.defined
        IN  /\ Check(st.oldLines, findDoc(NameFoo, Window(st.oldLines)))
            /\ ~findDoc(NameFoo, NoWindow).found
            /\ ~findDoc(NameFoo, Window(<<>>)).found

\* a window that ends a doc block with a body, and one with a closing sentinel
\* only, have both been handed to findDoc
C10_Witness ==
    /\ driver = "hover"
    /\ st.oldLines = DocBlock
    /\ findDoc(NameAdd, Window(st.oldLines)).found

(***************************************************************************)
(* Properties of the lookup requests (SpecReq)                             *)
(***************************************************************************)
\* the hover shows the documentation of add: the summary in its prose, and the
\* documented signature with parameters a, b of type number
ShowsDocumentedAdd(items) ==
    /\ \E i \in DOMAIN items :
         /\ items[i].kind = "documentation"
         /\ Contains(items[i].doc.summary, WordAdds)
    /\ \E i \in DOMAIN items :
         /\ items[i].kind = "code"
         /\ "label" \in DOMAIN items[i]
         /\ items[i].label.name = NameAdd
         /\ items[i].label.labels = <<<<"a">>, <<"b">>>>
         /\ items[i].label.types = <<TNumber, TNumber>>

\* C6: for source lines in which `def add(a, b):` directly follows a doc block
\* with a summary, two @param lines and @returns, a hover lookup for add through
\* the text driver or the file driver returns the summary and the documented
\* signature with labels [a, b] and types [number, number].
C6_HoverShowsDocumentation ==
    (/\ request.kind \in {"hoverText", "hoverFile"}
     /\ request.lines = DocText
     /\ request.keyword = NameAdd)
        => /\ response.hover.defined
           /\ ShowsDocumentedAdd(response.hover.value.items)

\* What holds: the file driver returns the documented hover.
C6_FileHoverShowsDocumentation ==
    (/\ request.kind = "hoverFile"
     /\ request.lines = DocText
     /\ request.keyword = NameAdd)
        => /\ response.hover.defined
           /\ ShowsDocumentedAdd(response.hover.value.items)

\* the line declares name: def, thread or global, whitespace, then the
\* identifier token name
Declares(line, name) ==
    \E kw \in DeclKeywords, p \in 0..Len(line) :
        LET After(q) ==
                /\ q > p + Len(kw)
                /\ StartsAt(line, q, name)
                /\ (q + Len(name) = Len(line)
                    \/ line[q + Len(name) + 1] \notin WordChars)
        IN  /\ StartsAt(line, p, kw)
            /\ WordBoundary(line, p)
            /\ After(SkipWhile(line, p + Len(kw), Whitespace))

\* the (file, line) pairs of the lines of a file that declare name
DeclaringLines(f, name) ==
    LET Numbers == [i \in 1..Len(f.lines) |-> i]
        Hits == SelectSeq(Numbers, LAMBDA i : f.readable /\ Declares(f.lines[i], name))
    IN  [k \in DOMAIN Hits |-> [uri |-> f.path, line |-> Hits[k] - 1]]

RECURSIVE DeclaringLinesOf(_, _)
DeclaringLinesOf(files, name) ==
    IF files = <<>> THEN <<>>
    ELSE DeclaringLines(Head(files), name) \o DeclaringLinesOf(Tail(files), name)

Places(locColl) ==
    [i \in DOMAIN locColl |-> [uri |-> locColl[i].uri, line |-> locColl[i].line]]

\* C7: a workspace location scan for a concrete identifier returns exactly one
\* record for each line that declares it in each scanned .script file other
\* than the edited file, in file then line order, and no other record.
C7_LocationsAreTheDeclarations ==
    (request.kind = "locationWorkspace" /\ request.keyword # <<>>)
        => Places(response.locations)
             = DeclaringLinesOf(ScriptFiles(request.folder, request.folder.entries,
                                            Basename(request.explored)),
                                request.keyword)

\* the folder without the entries that cannot be read
RECURSIVE ReadableEntries(_)
ReadableEntries(entries) ==
    IF entries = <<>> THEN <<>>
    ELSE (IF Head(entries).readable THEN <<Head(entries)>> ELSE <<>>)
         \o ReadableEntries(Tail(entries))

ReadablePart(folder) == [folder EXCEPT !.entries = ReadableEntries(@)]

HasUnreadable(folder) == \E i \in DOMAIN folder.entries : ~folder.entries[i].readable

Called == sigReq.kind = "call"

CursorLine == sigReq.document.lines[sigReq.position.line + 1]

Character == sigReq.position.character

ParLeft == IndexOf(CursorLine, <<"(">>, 0)

ParRight == IndexOf(CursorLine, <<")">>, ParLeft)

\* the number of commas between the opening parenthesis and the cursor
Commas ==
    Cardinality({p \in (ParLeft + 2)..Character : CursorLine[p] = ","})

\* the cursor is right of the opening parenthesis and not beyond the closing one
InsideClosed == ParLeft >= 0 /\ ParLeft < Character /\ Character <= ParRight

\* the same, for a line whose parenthesis may still be open
InsideParentheses ==
    ParLeft >= 0 /\ ParLeft < Character /\ (ParRight = -1 \/ Character <= ParRight)

\* the SignatureHelp a reference denotes
HelpOf(ref) ==
    IF ref.builtin THEN scriptSignatures[ref.index].Item ELSE ref.help

\* two references to the same object: the same catalog Item, or the same help
\* up to its activeParameter
SameObject(a, b) ==
    /\ a.builtin = b.builtin
    /\ a.builtin => a.index = b.index
    /\ ~a.builtin => a.help.signatures = b.help.signatures

RetriggerCase == Called /\ sigReq.isRetrigger /\ sigReq.active.defined

\* C2: on a retrigger with the cursor inside the parentheses the returned
\* object is the previously active signature help and its active-parameter
\* index is the number of commas between the opening parenthesis and the cursor
\* minus one (stated for one comma or more, and for a closed parenthesis).
C2_RetriggerIndexIsCommasMinusOne ==
    (RetriggerCase /\ InsideClosed /\ Commas >= 1)
        => /\ sigRes.result.defined
           /\ SameObject(sigRes.result.value, sigReq.active.value)
           /\ HelpOf(sigRes.result.value).activeParameter = Commas - 1

\* What the retrigger branch does: the index is the number of commas.
C2_RetriggerIndexIsCommas ==
    (RetriggerCase /\ InsideClosed)
        => /\ sigRes.result.defined
           /\ SameObject(sigRes.result.value, sigReq.active.value)
           /\ HelpOf(sigRes.result.value).activeParameter = Commas

FreshCase == Called /\ ~(sigReq.isRetrigger /\ sigReq.active.defined)

\* an identifier stands immediately before the opening parenthesis
IdentifierBeforeParen == ParLeft >= 1 /\ CursorLine[ParLeft] \in WordChars

\* what the catalog, the document and the workspace resolve the identifier to
Resolved ==
    FreshLookup(sigReq.before, sigReq.document,
                WordAt(sigReq.document, CursorLine, ParLeft - 1), sigReq.folders)

\* C3: a fresh call with the cursor right of an opening parenthesis that a
\* resolvable identifier precedes returns that identifier's signature with
\* active-parameter index 0, also on a line without a closing parenthesis.
C3_FreshResolvesRightOfParen ==
    (FreshCase /\ ~sigReq.isRetrigger /\ IdentifierBeforeParen /\ InsideParentheses)
        => LET Expect(r) ==
                   r.result.defined
                       => /\ sigRes.result = r.result
                          /\ HelpOf(sigRes.result.value).activeParameter = 0
           IN  Expect(Resolved)

\* What the range test allows: the same, on lines with a closing parenthesis
\* at or after the cursor.
C3_FreshResolvesInsideClosed ==
    (FreshCase /\ IdentifierBeforeParen /\ InsideClosed)
        => LET Expect(r) ==
                   r.result.defined
                       => /\ sigRes.result = r.result
                          /\ HelpOf(sigRes.result.value).activeParameter = 0
           IN  Expect(Resolved)

\* a fresh call that gets to the lookup
FreshPath ==
    /\ FreshCase
    /\ ~OutOfRange(ParLeft, ParRight, Character)
    /\ ParLeft >= 1

\* the order of the lookup, read off the searched places
LookupOrder(word, m, folders, fileName) ==
    LET InFolder(i) == getSignatureFromWorkspace(folders.value[i], word, fileName)
        Wrapped(sigHelp) ==
            IF sigHelp.defined THEN Some(ObjectRef(sigHelp.value)) ELSE Undefined
        OfFolders(hits) ==
            IF hits = {}
            THEN /\ sigRes.log = <<0>> \o [i \in 1..Len(folders.value) |-> i]
                 /\ ~sigRes.result.defined
            ELSE /\ sigRes.log = <<0>> \o [i \in 1..Min(hits) |-> i]
                 /\ sigRes.result = Wrapped(InFolder(Min(hits)))
        OfDocument(sigHelp) ==
            IF sigHelp.defined \/ ~folders.defined
            THEN sigRes.log = <<0>> /\ sigRes.result = Wrapped(sigHelp)
            ELSE OfFolders({i \in 1..Len(folders.value) : InFolder(i).defined})
    IN  IF m # 0
        THEN /\ sigRes.log = <<>>
             /\ sigRes.result = Some(BuiltinRef(m))
             /\ scriptSignatures[m].Item.activeParameter = 0
             /\ scriptSignatures[m].Item.activeSignature = 0
        ELSE OfDocument(getSignatureFromDocument(sigReq.document, word))

\* the first catalog entry of the name, 0 when there is none
CatalogIndex(word) ==
    MinOr({i \in DOMAIN sigReq.before : sigReq.before[i].Name = word}, 0)

\* C9: a fresh lookup searches the catalog first (on a hit the built-in's
\* indexes are reset to 0 and nothing else is searched), then the document, and
\* the workspace folders in order only when the document gave nothing, stopping
\* at the first folder that gives a result.
C9_LookupOrderShortCircuit ==
    FreshPath
        => LET Of(word) ==
                   LookupOrder(word, CatalogIndex(word), sigReq.folders,
                               sigReq.document.fileName)
           IN  Of(WordAt(sigReq.document, CursorLine, ParLeft - 1))

\* the second of three folders gave the result and the third was not searched
C9_Witness ==
    /\ FreshPath
    /\ sigReq.folders.defined
    /\ Len(sigReq.folders.value) = 3
    /\ sigRes.log = <<0, 1, 2>>
    /\ sigRes.result.defined

\* a fresh lookup has reset the index an earlier retrigger gave a built-in
C9_WitnessBuiltinReset ==
    /\ FreshPath
    /\ sigRes.log = <<>>
    /\ sigRes.result = Some(BuiltinRef(2))
    /\ sigReq.before[2].Item.activeParameter > 0
    /\ scriptSignatures[2].Item.activeParameter = 0

(***************************************************************************)
(* SpecDecl: one request on a source that holds declarations, one call of  *)
(* an exported function per behaviour: a completion scan or a hover lookup *)
(* of the text of one declaration line, or a location scan of a file.      *)
(***************************************************************************)
NameG1 == <<"g","1">>

NameDefaultPose == <<"d","e","f","a","u","l","t","_","p","o","s","e">>

NameGlobalSpeed == <<"g","l","o","b","a","l","_","s","p","e","e","d">>

NameThreads == <<"t","h","r","e","a","d","s">>

NameSetGlobal == <<"s","e","t","_","g","l","o","b","a","l">>

NameMyThread == <<"m","y","t","h","r","e","a","d">>

DeclNames ==
    {NameAdd, NameG1, NameDefaultPose, NameGlobalSpeed, NameThreads,
     NameSetGlobal, NameMyThread}

ArgsThreadId == <<"(","t","h","r","e","a","d","_","i","d",")",":">>

\* what follows the identifier on its line
DeclRests == {<<>>, ArgsNone, ArgsAB, ArgsThreadId}

DeclIndents == {<<>>, <<" "," ">>}

\* the declarations: indentation, keyword, one space, identifier, rest
Decls ==
    {[indent |-> ind, kw |-> kw, name |-> name, rest |-> rest] :
        ind \in DeclIndents, kw \in DeclKeywords, name \in DeclNames,
        rest \in DeclRests}

DeclLine(d) == d.indent \o d.kw \o Sp \o d.name \o d.rest

\* the files of the location scans
LocPool == {LDefMove, LIndentMove, LDefFoo, LGlobal, LEnd}

LocTexts == SeqsUpTo(LocPool, MaxLines)

LocKeywords == {<<>>, NameMove}

DeclInit == ScanIdle /\ ReqIdle /\ SigIdle

\* getCompletionItemsFromText on the text of one declaration, into an empty list
CompletionOfDeclaration ==
    /\ Idle
    /\ \E d \in Decls :
        /\ response' = [completions |->
                            getCompletionItemsFromText(DeclLine(d), <<>>, <<>>)]
        /\ request' = [kind |-> "declCompletion", decl |-> d]
    /\ UNCHANGED <<scanVars, cmpItems, scans, sigVars>>

\* getHoverFromText on the text of one declaration, for its identifier
HoverOfDeclaration ==
    /\ Idle
    /\ \E d \in Decls :
        /\ response' = [hover |-> getHoverFromText(DeclLine(d), d.name)]
        /\ request' = [kind |-> "declHover", decl |-> d]
    /\ UNCHANGED <<scanVars, cmpItems, scans, sigVars>>

\* getLocationFromFile on a file
LocationFromFile ==
    /\ Idle
    /\ \E ls \in LocTexts, kw \in LocKeywords :
        /\ response' = [locations |-> getLocationFromFile(AsFile(ls), kw)]
        /\ request' = [kind |-> "locationFile", lines |-> ls, keyword |-> kw]
    /\ UNCHANGED <<scanVars, cmpItems, scans, sigVars>>

DeclNext ==
    \/ CompletionOfDeclaration
    \/ HoverOfDeclaration
    \/ LocationFromFile

SpecDecl == DeclInit /\ [][DeclNext]_vars

(***************************************************************************)
(* Properties of the requests on declarations (SpecDecl)                   *)
(***************************************************************************)
\* the hover names the identifier: `global name`, `thread  name`, or the
\* call form `name(...)` of a function
HoverNames(items, name) ==
    \E i \in DOMAIN items :
        \/ EndsWith(items[i].text, Sp \o name)
        \/ StartsAt(items[i].text, 0, name \o <<"(">>)

\* the identifier begins with the letters of a reserved keyword
KeywordPrefixed(name) == \E kw \in DeclKeywords : StartsAt(name, 0, kw)

\* C11: the name extracted from the raw match of a declaration
\* `<keyword> <identifier>...` is the declared identifier itself, also when the
\* identifier begins with the letters of a keyword: the completion scan of the
\* declaration yields the one entry labelled with the identifier and the hover
\* lookup names it.
C11_NameIsDeclaredIdentifier ==
    /\ request.kind = "declCompletion"
         => Labels(response.completions) = <<request.decl.name>>
    /\ request.kind = "declHover"
         => /\ response.hover.defined
            /\ HoverNames(response.hover.value.items, request.decl.name)

\* the same, for the identifiers that do not begin with the letters of a keyword
C11_NameWhenNotKeywordPrefixed ==
    /\ (request.kind = "declCompletion" /\ ~KeywordPrefixed(request.decl.name))
         => Labels(response.completions) = <<request.decl.name>>
    /\ (request.kind = "declHover" /\ ~KeywordPrefixed(request.decl.name))
         => /\ response.hover.defined
            /\ HoverNames(response.hover.value.items, request.decl.name)

\* the entry carries the tag of the declaration keyword kw
TaggedBy(entry, kw) ==
    /\ kw = KwGlobal
         => /\ entry.kind = "Variable"
            /\ entry.insertText = [snippet |-> FALSE, value |-> entry.label]
    /\ kw = KwThread
         => /\ entry.kind = "Variable"
            /\ entry.insertText.value = entry.label \o <<"(", ")">>
    /\ kw = KwDef
         => entry.kind = "Function"

\* the declared name or the rest of the line spells `global` or `thread`
SpellsKeyword(d) ==
    Contains(d.name \o d.rest, KwGlobal) \/ Contains(d.name \o d.rest, KwThread)

\* C12: the completion entry built for a declaration is tagged by the keyword
\* of the declaration (Variable with the bare name for global, Variable with
\* name() for thread, Function for def), whatever the declared name, the
\* parameter names or the rest of the line contain.
C12_KindFollowsKeyword ==
    request.kind = "declCompletion"
        => \A i \in DOMAIN response.completions :
               TaggedBy(response.completions[i], request.decl.kw)

\* the same, for the declarations whose name and rest spell no keyword
C12_KindFollowsKeywordWhenUnspelled ==
    (request.kind = "declCompletion" /\ ~SpellsKeyword(request.decl))
        => \A i \in DOMAIN response.completions :
               TaggedBy(response.completions[i], request.decl.kw)

\* the first declaration of a raw line for the keyword kw, found by a pattern
\* that carries no state
FirstDeclaration(line, kw) == MthdExec(line, 0, DeclKeywords, kw)

\* the offset within the raw line of the first character of the identifier its
\* first declaration m declares
IdentifierOffset(line, m) == SkipWhile(line, m.index + Len(m.kw), Whitespace)

\* the record points at a declaration line of the lines ls for the keyword kw
OnDeclarationLine(rec, ls, kw) ==
    /\ rec.line \in 0..(Len(ls) - 1)
    /\ FirstDeclaration(ls[rec.line + 1], kw).found

\* the column of the record is the offset of the declared identifier within
\* the raw line
ColumnInLine(rec, ls, kw) ==
    LET Of(line) == rec.character = IdentifierOffset(line, FirstDeclaration(line, kw))
    IN  Of(ls[rec.line + 1])

\* the column of the record is the offset of the declared identifier within
\* the matched text, which starts at the keyword
ColumnInMatch(rec, ls, kw) ==
    LET At(line, m) == rec.character = IdentifierOffset(line, m) - m.index
        Of(line) == At(line, FirstDeclaration(line, kw))
    IN  Of(ls[rec.line + 1])

\* C13: every location record of getLocationFromFile carries the line number
\* of the declaration line it was matched on and, as column, the offset within
\* that raw line of the first character of the declared identifier, whatever
\* lines were matched before it and whatever indentation the line has.
C13_RecordPointsAtIdentifier ==
    request.kind = "locationFile"
        => \A i \in DOMAIN response.locations :
               /\ OnDeclarationLine(response.locations[i], request.lines,
                                    request.keyword)
               /\ ColumnInLine(response.locations[i], request.lines,
                               request.keyword)

\* every record carries the number of a declaration line, and the column of
\* the first record of a scan is the offset of the identifier within the match
C13_LineAndFirstColumnInMatch ==
    request.kind = "locationFile"
        => /\ \A i \in DOMAIN response.locations :
                  OnDeclarationLine(response.locations[i], request.lines,
                                    request.keyword)
           /\ response.locations # <<>>
                => ColumnInMatch(response.locations[1], request.lines,
                                 request.keyword)

====
